---- MODULE Spec2Model ----
(***************************************************************************)
(* A model of sync.py, the thread simulator of Swampy: the per-thread      *)
(* instruction pointer interpreter (class Thread), the scheduler (class    *)
(* Sync) and the synchronization primitives (Semaphore, FifoSemaphore,     *)
(* Lightswitch, Barrier).                                                  *)
(*                                                                         *)
(* Rows are numbered from 0 as in the source; instructions(t)[r + 1] is    *)
(* the line at row r.  A line of pseudo-code is a record                   *)
(*   [op, ind, sem, arg]                                                   *)
(* op: what the line does when Python executes it, ind: the result of      *)
(* count_spaces on it, sem: the semaphore it names, arg: the k of          *)
(* signal(k) or the c of a header "while x < c:" / "if x < c:".            *)
(***************************************************************************)
EXTENDS Integers, Sequences, FiniteSets, TLC

VARIABLES
    filename,       \* Sync.filename: the script that was loaded
    options,        \* Sync.options: roundrobin, loop, no_deadlocks, max_steps
    threads,        \* Sync.threads: the registered threads, in registration order
    running,        \* Sync.running
    step_count,     \* run_helper's local step_count
    pc,             \* where run() is: idle, loop, rr, done, error
    rr_i,           \* Sync.step: position of the list iterator of its for loop
    iptr,           \* Thread.iptr
    queued,         \* Thread.queued
    while_stack,    \* Thread.while_stack
    flag_map,       \* Thread.flag_map
    n,              \* Semaphore.n
    queue,          \* Semaphore.queue
    x,              \* the script's shared variable x (sim_locals)
    count,          \* Barrier.count
    counter,        \* Lightswitch.counter
    err,            \* the exception that ended run(), or "none"
    \* history variables, read by the properties only
    total_waits,    \* per semaphore: calls of wait()
    total_signals,  \* per semaphore: increments made by signal()
    arrival,        \* per semaphore: threads in the order they blocked
    woken,          \* per semaphore: threads in the order they were unblocked
    trace,          \* per thread: the rows it executed, each with the flag
                    \* exec_line returned and while_stack before and after it
    phase1_done,    \* per thread: Barrier.phase1 has returned
    phase2_done,    \* per thread: Barrier.phase2 has returned
    tick_start,     \* threads neither queued nor finished when the tick began
    tick_log        \* threads that executed a line in the current tick

vars == <<filename, options, threads, running, step_count, pc, rr_i, iptr,
          queued, while_stack, flag_map, n, queue, x, count, counter, err,
          total_waits, total_signals, arrival, woken, trace, phase1_done,
          phase2_done, tick_start, tick_log>>

\* ------------------------------------------------------------------ bounds

\* Options.max_steps of the checked runs: run() makes at most this many ticks.
MaxSteps == 6
\* Threads that wait on the semaphore of the scripts "fifo" and "random".
NWaiters == 3
\* The n of Barrier(n), and the number of threads of the script "barrier".
Parties == 3
\* Threads of the scripts "crit" and "critfifo".
NCrit == 3

\* ----------------------------------------------------------------- scripts

Line(op, ind, sem, arg) == [op |-> op, ind |-> ind, sem |-> sem, arg |-> arg]

Files == {"mutex", "barrier", "while", "fifo", "random", "plain", "balk",
          "ifelse", "orphan", "unindented", "rw", "crit", "critfifo"}

\* The blocks of each script after its init block, one per thread.
\*   mutex:   init "mutex = Semaphore(1)"; two threads "mutex.wait()", "mutex.signal()"
\*   barrier: init "b = Barrier(Parties)"; Parties threads "b.wait()"
\*   while:   init "x = 0"; thread 1 "while x < 3:", "    x = x + 1"; thread 2 empty
\*   fifo:    init "sem = FifoSemaphore(0)"; thread 1 "sem.signal()", "sem.signal(2)";
\*            NWaiters threads "sem.wait()", "noop()"
\*   random:  init "sem = Semaphore(0)"; thread 1 as in fifo; NWaiters threads
\*            "sem.wait()"
\*   plain:   thread 1 "noop()"; thread 2 "noop()", "noop()"; thread 3 "noop()"
\*   balk:    init "x = 0"; thread 1 "x = x + 1", "while x < 3:", "    balk()";
\*            thread 2 "noop()"
\*   ifelse:  init "x = 0"; thread 1 "if x < 1:", "    x = x + 1", "else:",
\*            "    noop()"; thread 2 "x = x + 1"
\*   orphan:  thread 1 "else:", "    noop()"; thread 2 "def f():", "    noop()",
\*            "noop()"
\*   unindented: init "x = 0"; thread 1 "if x < 1:", "x = x + 1"; thread 2
\*            "while x < 0:", "noop()"
\*   rw:      init "mutex = Semaphore(1)", "L = Lightswitch()"; thread 1 (writer)
\*            "mutex.wait()", "noop()", "mutex.signal()"; threads 2, 3 (readers)
\*            "L.lock(mutex)", "noop()", "L.unlock(mutex)"
\*   crit:    init "mutex = Semaphore(1)"; NCrit threads "mutex.wait()", "noop()",
\*            "mutex.signal()"
\*   critfifo: init "mutex = FifoSemaphore(1)"; NCrit threads "mutex.wait()",
\*            "noop()", "noop()", "mutex.signal()"
Script(f) ==
    CASE f = "mutex" ->
           [t \in 1..2 |-> << Line("wait", 0, "mutex", 0),
                              Line("signal", 0, "mutex", 1) >>]
      [] f = "barrier" ->
           [t \in 1..Parties |-> << Line("barrier_wait", 0, "none", 0) >>]
      [] f = "while" ->
           [t \in 1..2 |-> IF t = 1
                           THEN << Line("while", 0, "none", 3),
                                   Line("inc", 4, "none", 0) >>
                           ELSE << >>]
      [] f = "fifo" ->
           [t \in 1..(NWaiters + 1) |->
               IF t = 1
               THEN << Line("signal", 0, "sem", 1), Line("signal", 0, "sem", 2) >>
               ELSE << Line("wait", 0, "sem", 0), Line("noop", 0, "none", 0) >>]
      [] f = "random" ->
           [t \in 1..(NWaiters + 1) |->
               IF t = 1
               THEN << Line("signal", 0, "sem", 1), Line("signal", 0, "sem", 2) >>
               ELSE << Line("wait", 0, "sem", 0) >>]
      [] f = "plain" ->
           [t \in 1..3 |-> IF t = 2
                           THEN << Line("noop", 0, "none", 0),
                                   Line("noop", 0, "none", 0) >>
                           ELSE << Line("noop", 0, "none", 0) >>]
      [] f = "balk" ->
           [t \in 1..2 |-> IF t = 1
                           THEN << Line("inc", 0, "none", 0),
                                   Line("while", 0, "none", 3),
                                   Line("balk", 4, "none", 0) >>
                           ELSE << Line("noop", 0, "none", 0) >>]
      [] f = "ifelse" ->
           [t \in 1..2 |-> IF t = 1
                           THEN << Line("if", 0, "none", 1),
                                   Line("inc", 4, "none", 0),
                                   Line("else", 0, "none", 0),
                                   Line("noop", 4, "none", 0) >>
                           ELSE << Line("inc", 0, "none", 0) >>]
      [] f = "orphan" ->
           [t \in 1..2 |-> IF t = 1
                           THEN << Line("else", 0, "none", 0),
                                   Line("noop", 4, "none", 0) >>
                           ELSE << Line("def", 0, "none", 0),
                                   Line("noop", 4, "none", 0),
                                   Line("noop", 0, "none", 0) >>]
      [] f = "unindented" ->
           [t \in 1..2 |-> IF t = 1
                           THEN << Line("if", 0, "none", 1),
                                   Line("inc", 0, "none", 0) >>
                           ELSE << Line("while", 0, "none", 0),
                                   Line("noop", 0, "none", 0) >>]
      [] f = "rw" ->
           [t \in 1..3 |-> IF t = 1
                           THEN << Line("wait", 0, "mutex", 0),
                                   Line("noop", 0, "none", 0),
                                   Line("signal", 0, "mutex", 1) >>
                           ELSE << Line("lock", 0, "mutex", 0),
                                   Line("noop", 0, "none", 0),
                                   Line("unlock", 0, "mutex", 0) >>]
      [] f = "crit" ->
           [t \in 1..NCrit |-> << Line("wait", 0, "mutex", 0),
                                  Line("noop", 0, "none", 0),
                                  Line("signal", 0, "mutex", 1) >>]
      [] f = "critfifo" ->
           [t \in 1..NCrit |-> << Line("wait", 0, "mutex", 0),
                                  Line("noop", 0, "none", 0),
                                  Line("noop", 0, "none", 0),
                                  Line("signal", 0, "mutex", 1) >>]

AllThreads == DOMAIN Script(filename)

instructions(t) == Script(filename)[t]

Sems == {"mutex", "sem", "b_mutex", "turnstile", "turnstile2", "ls_mutex"}

\* The value each semaphore is created with, by the init block, by Barrier or
\* by Lightswitch.
InitialN(s) == IF s \in {"mutex", "b_mutex", "ls_mutex"} THEN 1 ELSE 0

\* Whether the semaphore is a FifoSemaphore.
IsFifo(s) ==
    \/ filename = "fifo" /\ s = "sem"
    \/ filename = "critfifo" /\ s = "mutex"

Range(q) == {q[i] : i \in DOMAIN q}

\* list.remove(e): q without its first element equal to e.
Remove(q, e) ==
    LET i == CHOOSE j \in DOMAIN q : q[j] = e /\ \A k \in 1..(j - 1) : q[k] # e
    IN  SubSeq(q, 1, i - 1) \o SubSeq(q, i + 1, Len(q))

\* ------------------------------------------------------------ the machine

\* The mutable state the operations of Thread, Semaphore and Barrier work on.
Machine ==
    [threads |-> threads, iptr |-> iptr, queued |-> queued,
     while_stack |-> while_stack, flag_map |-> flag_map, n |-> n,
     queue |-> queue, x |-> x, count |-> count, counter |-> counter, err |-> err,
     total_waits |-> total_waits, total_signals |-> total_signals,
     arrival |-> arrival, woken |-> woken, trace |-> trace,
     phase1_done |-> phase1_done, phase2_done |-> phase2_done]

Install(m) ==
    /\ threads' = m.threads
    /\ iptr' = m.iptr
    /\ queued' = m.queued
    /\ while_stack' = m.while_stack
    /\ flag_map' = m.flag_map
    /\ n' = m.n
    /\ queue' = m.queue
    /\ x' = m.x
    /\ count' = m.count
    /\ counter' = m.counter
    /\ err' = m.err
    /\ total_waits' = m.total_waits
    /\ total_signals' = m.total_signals
    /\ arrival' = m.arrival
    /\ woken' = m.woken
    /\ trace' = m.trace
    /\ phase1_done' = m.phase1_done
    /\ phase2_done' = m.phase2_done

\* ------------------------------------------------------------ class Thread

finished(m, t) == m.iptr[t] >= Len(instructions(t))

enqueue(m, t) == [m EXCEPT !.queued[t] = TRUE]

dequeue(m, t) == [m EXCEPT !.queued[t] = FALSE]

jump_to(m, t, row) == [m EXCEPT !.iptr[t] = row]

balk(m, t) == [m EXCEPT !.iptr[t] = -1]

start(m, t) == [m EXCEPT !.queued[t] = FALSE, !.iptr[t] = 0]

\* Mutant of next_row: the test of self.queued is missing.
next_row_ignores_queued(m, t) == [m EXCEPT !.iptr[t] = @ + 1]

next_row(m, t) ==
    IF m.queued[t] THEN m ELSE [m EXCEPT !.iptr[t] = @ + 1]

\* Mutant of next_loop: the restart of a finished looping thread is missing.
next_loop_no_restart(m, t) == next_row(m, t)

next_loop(m, t) ==
    LET a == next_row(m, t)
    IN  IF finished(a, t) /\ options.loop THEN start(a, t) ELSE a

count_spaces(source) == source.ind

\* skip_body, first loop: from row p, the first row that is not a blank line,
\* or the instruction count when there is none.
RECURSIVE first_nonblank(_, _)
first_nonblank(I, p) ==
    IF p >= Len(I) THEN Len(I)
    ELSE IF I[p + 1].op # "blank" THEN p
    ELSE first_nonblank(I, p + 1)

\* skip_body, second loop: from row p, the first row that is not blank and is
\* indented no more than the header, or the instruction count.
RECURSIVE first_outdent(_, _, _)
first_outdent(I, p, head_indent) ==
    IF p >= Len(I) THEN Len(I)
    ELSE IF I[p + 1].op = "blank" THEN first_outdent(I, p + 1, head_indent)
    ELSE IF count_spaces(I[p + 1]) <= head_indent THEN p
    ELSE first_outdent(I, p + 1, head_indent)

\* A queued thread's next_row does not move it: the first loop then reads the
\* header again.
skip_body(m, t) ==
    IF finished(m, t) THEN m
    ELSE LET I == instructions(t)
             head == m.iptr[t]
             head_indent == count_spaces(I[head + 1])
             p1 == IF m.queued[t] THEN head ELSE first_nonblank(I, head + 1)
         IN  IF p1 >= Len(I) THEN [m EXCEPT !.iptr[t] = p1]
             ELSE IF count_spaces(I[p1 + 1]) - head_indent <= 0
             THEN [m EXCEPT !.iptr[t] = p1,
                            !.err = "Body of compound statement must be indented."]
             ELSE [m EXCEPT !.iptr[t] = first_outdent(I, p1 + 1, head_indent)]

check_end_while(m, t) ==
    IF m.while_stack[t] = << >> THEN m
    ELSE LET top == m.while_stack[t][Len(m.while_stack[t])]
             source == instructions(t)[m.iptr[t] + 1]
         IN  IF count_spaces(source) <= top[1]
             THEN jump_to([m EXCEPT !.while_stack[t] = SubSeq(@, 1, Len(@) - 1)],
                          t, top[2])
             ELSE m

\* The result of exec_line: the machine after the line and the flag returned.
Result(m, flag) == [m |-> m, flag |-> flag]

\* Mutant of handle_conditional: else returns the flag of the if, not negated.
handle_conditional_else_same(m, t, source) ==
    IF source.op = "if"
    THEN LET flag == m.x < source.arg
         IN  Result([m EXCEPT !.flag_map[t] = (count_spaces(source) :> flag) @@ @],
                    flag)
    ELSE IF source.op = "while"
    THEN LET flag == m.x < source.arg
         IN  Result(IF flag
                    THEN [m EXCEPT !.while_stack[t] =
                                      Append(@, <<count_spaces(source), m.iptr[t]>>)]
                    ELSE m,
                    flag)
    ELSE IF count_spaces(source) \in DOMAIN m.flag_map[t]
    THEN Result(m, m.flag_map[t][count_spaces(source)])
    ELSE Result([m EXCEPT !.err = "else does not match if"], FALSE)

\* The conditions of the scripts are "x < c".
handle_conditional(m, t, source) ==
    IF source.op = "if"
    THEN LET flag == m.x < source.arg
         IN  Result([m EXCEPT !.flag_map[t] = (count_spaces(source) :> flag) @@ @],
                    flag)
    ELSE IF source.op = "while"
    THEN LET flag == m.x < source.arg
         IN  Result(IF flag
                    THEN [m EXCEPT !.while_stack[t] =
                                      Append(@, <<count_spaces(source), m.iptr[t]>>)]
                    ELSE m,
                    flag)
    ELSE IF count_spaces(source) \in DOMAIN m.flag_map[t]
    THEN Result(m, ~ m.flag_map[t][count_spaces(source)])
    ELSE Result([m EXCEPT !.err = "else does not match if"], FALSE)

handle_def(m, t) ==
    LET head_line == m.iptr[t]
        a == skip_body(m, t)
    IN  IF a.err # "none" THEN a ELSE [a EXCEPT !.iptr[t] = head_line]

\* --------------------------------------- class Semaphore, FifoSemaphore

\* Mutant of Semaphore_block: the call of thread.enqueue() is missing.
Semaphore_block_no_enqueue(m, s, t) == [m EXCEPT !.queue[s] = Append(@, t)]

Semaphore_block(m, s, t) ==
    LET a == enqueue(m, t)
    IN  [a EXCEPT !.queue[s] = Append(@, t)]

\* Mutant of Semaphore_wait: blocks at n = 0 as well ("<=" for "<").
Semaphore_wait_blocks_at_zero(m, s, t) ==
    LET a == [m EXCEPT !.n[s] = @ - 1]
    IN  IF a.n[s] <= 0
        THEN Semaphore_block([a EXCEPT !.arrival[s] = Append(@, t)], s, t)
        ELSE a

Semaphore_wait(m, s, t) ==
    LET a == [m EXCEPT !.n[s] = @ - 1]
    IN  IF a.n[s] < 0
        THEN Semaphore_block([a EXCEPT !.arrival[s] = Append(@, t)], s, t)
        ELSE a

\* Mutant of Semaphore_unblock: the call of next_loop is missing.
Semaphore_unblock_passive(m, s) ==
    { dequeue([m EXCEPT !.queue[s] = Remove(@, thread)], thread) :
        thread \in Range(m.queue[s]) }

\* random.choice(self.queue), every choice.
Semaphore_unblock(m, s) ==
    { next_loop(dequeue([m EXCEPT !.queue[s] = Remove(@, thread)], thread), thread) :
        thread \in Range(m.queue[s]) }

\* Mutant of FifoSemaphore_unblock: pop() for pop(0).
FifoSemaphore_unblock_pops_last(m, s) ==
    LET thread == m.queue[s][Len(m.queue[s])]
    IN  { next_loop(dequeue([m EXCEPT !.queue[s] = SubSeq(@, 1, Len(@) - 1)], thread),
                    thread) }

FifoSemaphore_unblock(m, s) ==
    LET thread == Head(m.queue[s])
    IN  { next_loop(dequeue([m EXCEPT !.queue[s] = Tail(@)], thread), thread) }

\* History: the thread an unblock took out of the queue.
RecordWoken(m, r, s) ==
    LET gone == Range(m.queue[s]) \ Range(r.queue[s])
    IN  IF gone = {} THEN r
        ELSE [r EXCEPT !.woken[s] = Append(@, CHOOSE u \in gone : TRUE)]

\* self.unblock(): the method of the semaphore's class.
unblock(m, s) ==
    { RecordWoken(m, r, s) :
        r \in IF IsFifo(s) THEN FifoSemaphore_unblock(m, s)
              ELSE Semaphore_unblock(m, s) }

\* Mutant of signal_once: n is incremented only when no thread is woken.
signal_once_counts_only_idle(m, s) ==
    IF m.queue[s] # << >> THEN unblock(m, s) ELSE {[m EXCEPT !.n[s] = @ + 1]}

\* One pass of the loop of signal.
signal_once(m, s) ==
    LET a == [m EXCEPT !.n[s] = @ + 1]
    IN  IF a.queue[s] # << >> THEN unblock(a, s) ELSE {a}

RECURSIVE signal_loop(_, _, _)
signal_loop(ms, s, k) ==
    IF k = 0 THEN ms
    ELSE signal_loop(UNION { signal_once(m, s) : m \in ms }, s, k - 1)

Semaphore_signal(m, s, k) == signal_loop({m}, s, k)

\* History: a call of wait(), of signal(k).
CountWait(m, s) == [m EXCEPT !.total_waits[s] = @ + 1]
CountSignal(m, s, k) == [m EXCEPT !.total_signals[s] = @ + k]

call_wait(m, s, t) == Semaphore_wait(CountWait(m, s), s, t)
call_signal(m, s, k) == Semaphore_signal(CountSignal(m, s, k), s, k)

\* ------------------------------------------------------- class Lightswitch

Lightswitch_lock(m, t, semaphore) ==
    LET a == call_wait(m, "ls_mutex", t)
        b == [a EXCEPT !.counter = @ + 1]
        c == IF b.counter = 1 THEN call_wait(b, semaphore, t) ELSE b
    IN  call_signal(c, "ls_mutex", 1)

Lightswitch_unlock(m, t, semaphore) ==
    LET a == call_wait(m, "ls_mutex", t)
        b == [a EXCEPT !.counter = @ - 1]
        cs == IF b.counter = 0 THEN call_signal(b, semaphore, 1) ELSE {b}
    IN  UNION { call_signal(c, "ls_mutex", 1) : c \in cs }

\* ----------------------------------------------------------- class Barrier

Barrier_phase1(m, t) ==
    LET a == call_wait(m, "b_mutex", t)
        b == [a EXCEPT !.count = @ + 1]
        cs == IF b.count = Parties THEN call_signal(b, "turnstile", Parties) ELSE {b}
        ds == UNION { call_signal(c, "b_mutex", 1) : c \in cs }
    IN  { call_wait(d, "turnstile", t) : d \in ds }

Barrier_phase2(m, t) ==
    LET a == call_wait(m, "b_mutex", t)
        b == [a EXCEPT !.count = @ - 1]
        cs == IF b.count = 0 THEN call_signal(b, "turnstile2", Parties) ELSE {b}
        ds == UNION { call_signal(c, "b_mutex", 1) : c \in cs }
    IN  { call_wait(d, "turnstile2", t) : d \in ds }

Barrier_wait(m, t) ==
    UNION { { [q EXCEPT !.phase2_done[t] = TRUE] :
                q \in Barrier_phase2([p EXCEPT !.phase1_done[t] = TRUE], t) } :
            p \in Barrier_phase1(m, t) }

\* ------------------------------------------------- Thread.exec_line, step

\* exec_line: every outcome of running the line at the thread's pointer.
exec_line(m, t, source) ==
    CASE source.op \in {"noop", "blank"} -> { Result(m, TRUE) }
      [] source.op = "inc" -> { Result([m EXCEPT !.x = @ + 1], TRUE) }
      [] source.op = "wait" -> { Result(call_wait(m, source.sem, t), TRUE) }
      [] source.op = "signal" ->
           { Result(a, TRUE) : a \in call_signal(m, source.sem, source.arg) }
      [] source.op = "barrier_wait" -> { Result(a, TRUE) : a \in Barrier_wait(m, t) }
      [] source.op = "lock" ->
           { Result(a, TRUE) : a \in Lightswitch_lock(m, t, source.sem) }
      [] source.op = "unlock" ->
           { Result(a, TRUE) : a \in Lightswitch_unlock(m, t, source.sem) }
      [] source.op = "balk" -> { Result(balk(m, t), TRUE) }
      [] source.op \in {"if", "while", "else"} -> { handle_conditional(m, t, source) }
      [] source.op = "def" -> { Result(handle_def(m, t), FALSE) }

\* The end of step: next_row after a true flag, skip_body after a false one;
\* an exception raised by the line leaves step at once.
after_line(r, t, row, before) ==
    LET a == [r.m EXCEPT !.trace[t] =
                 Append(@, [row |-> row, flag |-> r.flag, before |-> before,
                            after |-> r.m.while_stack[t]])]
    IN  IF a.err # "none" THEN a
        ELSE IF r.flag THEN next_row(a, t)
        ELSE skip_body(a, t)

\* Mutant of Thread_step: the test of self.queued is missing.
Thread_step_ignores_queued(m, t) ==
    IF finished(m, t) THEN {m}
    ELSE LET a == check_end_while(m, t)
             row == a.iptr[t]
         IN  { after_line(r, t, row, a.while_stack[t]) :
                 r \in exec_line(a, t, instructions(t)[row + 1]) }

Thread_step(m, t) ==
    IF m.queued[t] \/ finished(m, t) THEN {m}
    ELSE LET a == check_end_while(m, t)
             row == a.iptr[t]
         IN  { after_line(r, t, row, a.while_stack[t]) :
                 r \in exec_line(a, t, instructions(t)[row + 1]) }

Thread_step_loop(m, t) ==
    { IF a.err = "none" /\ finished(a, t) THEN start(a, t) ELSE a :
        a \in Thread_step(m, t) }

\* --------------------------------------------------------------- class Sync

unregister(m, t) == [m EXCEPT !.threads = Remove(@, t)]

\* Mutant of step_thread: the finished thread is not unregistered.
step_thread_keeps_finished(m, t) == Thread_step(m, t)

step_thread(m, t) ==
    { IF a.err = "none" /\ finished(a, t) THEN unregister(a, t) ELSE a :
        a \in Thread_step(m, t) }

step_thread_loop(m, t) == Thread_step_loop(m, t)

\* run: thread_stepper is step_thread_loop in loop mode, step_thread otherwise.
thread_stepper(m, t) ==
    IF options.loop THEN step_thread_loop(m, t) ELSE step_thread(m, t)

\* Mutant of runnable: the filter on queued is missing.
runnable_unfiltered(ths, q) == ths

\* random_step: the threads that are not queued.
runnable(ths, q) == SelectSeq(ths, LAMBDA t : ~ q[t])

\* History: the registered threads that are neither queued nor finished.
Ready == SelectSeq(threads, LAMBDA t : ~ queued[t] /\ ~ finished(Machine, t))

\* The state after Sync.__init__: the script is read, its init block has run
\* and its thread is unregistered; the other threads are at row 0.
Init ==
    /\ filename \in Files
    /\ options \in [roundrobin : BOOLEAN, loop : BOOLEAN, no_deadlocks : BOOLEAN,
                    max_steps : {1, MaxSteps}]
    /\ options.roundrobin => options.no_deadlocks
    /\ threads = [i \in 1..Cardinality(AllThreads) |-> i]
    /\ running = FALSE
    /\ step_count = 0
    /\ pc = "idle"
    /\ rr_i = 0
    /\ iptr = [t \in AllThreads |-> 0]
    /\ queued = [t \in AllThreads |-> FALSE]
    /\ while_stack = [t \in AllThreads |-> << >>]
    /\ flag_map = [t \in AllThreads |-> << >>]
    /\ n = [s \in Sems |-> InitialN(s)]
    /\ queue = [s \in Sems |-> << >>]
    /\ x = 0
    /\ count = 0
    /\ counter = 0
    /\ err = "none"
    /\ total_waits = [s \in Sems |-> 0]
    /\ total_signals = [s \in Sems |-> 0]
    /\ arrival = [s \in Sems |-> << >>]
    /\ woken = [s \in Sems |-> << >>]
    /\ trace = [t \in AllThreads |-> << >>]
    /\ phase1_done = [t \in AllThreads |-> FALSE]
    /\ phase2_done = [t \in AllThreads |-> FALSE]
    /\ tick_start = << >>
    /\ tick_log = << >>

\* Mutant of tick_end: ">" for ">=" in the test of max_steps.
tick_end_one_more ==
    /\ step_count' = step_count + 1
    /\ running' = IF step_count + 1 > options.max_steps THEN FALSE ELSE running
    /\ pc' = "loop"
    /\ rr_i' = 0

\* run_helper, after stepper returns: count the tick, stop at max_steps.
tick_end ==
    /\ step_count' = step_count + 1
    /\ running' = IF step_count + 1 >= options.max_steps THEN FALSE ELSE running
    /\ pc' = "loop"
    /\ rr_i' = 0

\* An exception leaves run(): nothing after the raise is executed.
raise_out ==
    /\ pc' = "error"
    /\ UNCHANGED <<step_count, running, rr_i>>

\* run() up to the while loop of run_helper.
Run ==
    /\ pc = "idle"
    /\ pc' = "loop"
    /\ running' = TRUE
    /\ step_count' = 0
    /\ UNCHANGED <<filename, options, threads, rr_i, iptr, queued, while_stack,
                   flag_map, n, queue, x, count, counter, err, total_waits, total_signals,
                   arrival, woken, trace, phase1_done, phase2_done, tick_start,
                   tick_log>>

\* run_helper returns: running was cleared, or no thread is left.
Return ==
    /\ pc = "loop"
    /\ ~ running \/ threads = << >>
    /\ pc' = "done"
    /\ UNCHANGED <<filename, options, threads, running, step_count, rr_i, iptr,
                   queued, while_stack, flag_map, n, queue, x, count, counter, err,
                   total_waits, total_signals, arrival, woken, trace, phase1_done,
                   phase2_done, tick_start, tick_log>>

\* One tick of run_helper with stepper = random_step.
RandomTick ==
    /\ pc = "loop" /\ running /\ threads # << >>
    /\ ~ options.roundrobin
    /\ tick_start' = Ready
    /\ UNCHANGED <<filename, options>>
    /\ IF runnable(threads, queued) = << >>
       THEN /\ tick_log' = << >>
            /\ UNCHANGED <<threads, iptr, queued, while_stack, flag_map, n, queue,
                           x, count, counter, total_waits, total_signals, arrival, woken,
                           trace, phase1_done, phase2_done>>
            /\ IF options.no_deadlocks
               THEN err' = "deadlocked" /\ raise_out
               ELSE UNCHANGED err /\ tick_end
       ELSE \E thread \in Range(runnable(threads, queued)) :
            \E m \in thread_stepper(Machine, thread) :
                /\ Install(m)
                /\ tick_log' = << thread >>
                /\ IF m.err # "none" THEN raise_out ELSE tick_end

\* One pass of the for loop of Sync.step (stepper of the round-robin mode);
\* the first pass starts the tick and the last one ends it.  The loop walks
\* the list self.threads itself: it stops when its position is past the end
\* of the list as it is then.
RoundRobinStep ==
    /\ \/ pc = "rr"
       \/ pc = "loop" /\ running /\ threads # << >> /\ options.roundrobin
    /\ UNCHANGED <<filename, options>>
    /\ LET i == IF pc = "rr" THEN rr_i ELSE 0
           thread == threads[i + 1]
       IN  \E m \in thread_stepper(Machine, thread) :
               /\ Install(m)
               /\ tick_start' = IF pc = "rr" THEN tick_start ELSE Ready
               /\ tick_log' = Append(IF pc = "rr" THEN tick_log ELSE << >>, thread)
               /\ IF m.err # "none" THEN raise_out
                  ELSE IF i + 1 < Len(m.threads)
                  THEN /\ pc' = "rr"
                       /\ rr_i' = i + 1
                       /\ UNCHANGED <<step_count, running>>
                  ELSE tick_end

Next == Run \/ Return \/ RandomTick \/ RoundRobinStep

Spec == Init /\ [][Next]_vars

\* ------------------------------------------------------------------ claims

Max(a, b) == IF a >= b THEN a ELSE b

\* C1: at every point between executed lines, each semaphore's n is its
\* initial value plus the increments made by signal minus the calls of wait,
\* and its queue holds max(0, -n) threads.
C1_SemaphoreInvariant ==
    \A s \in Sems :
        /\ n[s] = InitialN(s) + total_signals[s] - total_waits[s]
        /\ Len(queue[s]) = Max(0, - n[s])

\* C1 happens: a semaphore that was waited on and signalled has two waiters.
C1_Witness ==
    \E s \in Sems :
        total_waits[s] >= 2 /\ total_signals[s] >= 1 /\ Len(queue[s]) = 2

\* C2: with two threads that wait and then signal on one Semaphore(1), the
\* semaphore's n is never below -1.
C2_MutexCounterAtLeastMinusOne ==
    filename = "mutex" => n["mutex"] >= -1

\* C2 happens: one of the two threads is blocked on the mutex, in loop mode
\* after the mutex was signalled.
C2_Witness ==
    /\ filename = "mutex"
    /\ n["mutex"] = -1
    /\ total_signals["mutex"] >= 2
    /\ options.loop

\* C3: with Barrier(Parties) and Parties threads calling wait(), no thread
\* has completed phase2 unless every thread has completed phase1.
C3_NoPhase2BeforeAllPhase1 ==
    filename = "barrier" =>
        ((\E t \in AllThreads : phase2_done[t]) =>
            \A u \in AllThreads : phase1_done[u])

\* C4: a FifoSemaphore wakes its threads in the order in which they blocked:
\* the threads woken so far, followed by the queue, are the threads that
\* blocked, in the order they blocked.
C4_FifoWakesInArrivalOrder ==
    \A s \in Sems : IsFifo(s) => arrival[s] = woken[s] \o queue[s]

\* C4 happens: the FifoSemaphore woke two threads that had not blocked in the
\* order of their registration.
C4_Witness ==
    /\ filename = "fifo"
    /\ Len(woken["sem"]) >= 2
    /\ woken["sem"][1] > woken["sem"][2]

\* C5: in round-robin mode, the threads that were neither queued nor finished
\* when a tick began are the threads of them the tick stepped, each once and
\* in registration order.
C5_RoundRobinStepsEveryReadyThread ==
    (options.roundrobin /\ pc = "loop" /\ step_count > 0) =>
        SelectSeq(tick_log, LAMBDA t : t \in Range(tick_start)) = tick_start

\* C6: the script "while" (x = 0; while x < 3: x = x + 1; an empty thread),
\* run in round-robin, non-loop mode until no thread is left, ends with x = 3.
C6_WhileScriptEndsWithXThree ==
    (/\ filename = "while" /\ options.roundrobin /\ ~ options.loop
     /\ pc = "done" /\ threads = << >>) => x = 3

\* The rows of the body of the header at row r of thread t end before this row.
BodyEnd(t, r) ==
    first_outdent(instructions(t), r + 1, count_spaces(instructions(t)[r + 1]))

\* C7: every while header a thread stepped: when its condition was false,
\* while_stack is unchanged and the next row the thread executes is none of
\* its body; when true, the frame (indent, row) is pushed, the rows executed
\* next are the rows of the body, each once, and then the header again; a
\* thread that has left the active set has evaluated the header again.
C7_WhileBodyThenHeaderAgain ==
    \A t \in AllThreads : \A i \in DOMAIN trace[t] :
        LET r == trace[t][i].row
            header == instructions(t)[r + 1]
            k == BodyEnd(t, r) - r - 1
        IN  header.op = "while" =>
              IF ~ trace[t][i].flag
              THEN /\ trace[t][i].after = trace[t][i].before
                   /\ i < Len(trace[t]) =>
                        trace[t][i + 1].row \notin (r + 1)..(r + k)
              ELSE /\ trace[t][i].after =
                        Append(trace[t][i].before, <<count_spaces(header), r>>)
                   /\ \A d \in 1..k :
                        i + d <= Len(trace[t]) => trace[t][i + d].row = r + d
                   /\ i + k + 1 <= Len(trace[t]) => trace[t][i + k + 1].row = r
                   /\ (t \notin Range(threads) /\ err = "none") =>
                        i + k + 1 <= Len(trace[t])

\* C8: a tick of the random mode with a registered thread and every
\* registered thread queued raises the deadlock error under the fatal policy
\* and changes no pointer, queued flag, counter or queue under the silent
\* one; a tick with a thread that is not queued reports no deadlock and steps
\* one thread, which was not queued.
C8_RandomTickDeadlockPolicy ==
    [][ (pc = "loop" /\ running /\ threads # << >> /\ ~ options.roundrobin) =>
          IF \A t \in Range(threads) : queued[t]
          THEN IF options.no_deadlocks
               THEN pc' = "error" /\ err' = "deadlocked"
               ELSE /\ UNCHANGED <<iptr, queued, n, queue>>
                    /\ err' = "none" /\ pc' = "loop"
          ELSE /\ err' # "deadlocked"
               /\ Len(tick_log') = 1
               /\ tick_log'[1] \in Range(threads)
               /\ ~ queued[tick_log'[1]]
               /\ \A t \in AllThreads : trace'[t] # trace[t] => t = tick_log'[1]
      ]_vars

\* C8 happens: every registered thread was queued at a tick of the random
\* mode, under the fatal policy.
C8_Witness ==
    /\ pc = "error" /\ err = "deadlocked"
    /\ threads # << >> /\ \A t \in Range(threads) : queued[t]

\* The pointer of a thread woken at row r.
WokenPointer(t, r) ==
    IF r + 1 = Len(instructions(t)) /\ options.loop THEN 0 ELSE r + 1

\* C9: a thread that an unblock takes out of a semaphore's queue was queued
\* at the row of a wait(), and after the same step it is in no queue, it is
\* not queued and its pointer is the next row (0 when that is the end of a
\* looping thread).
C9_WakeAdvancesPointer ==
    [][ \A s \in Sems : \A j \in (Len(woken[s]) + 1)..Len(woken'[s]) :
          LET t == woken'[s][j]
          IN  /\ queued[t] /\ ~ queued'[t]
              /\ instructions(t)[iptr[t] + 1].op \in {"wait", "barrier_wait", "lock"}
              /\ \A s2 \in Sems : t \notin Range(queue'[s2])
              /\ iptr'[t] = WokenPointer(t, iptr[t])
      ]_vars

\* C9 happens: a looping thread blocked on its last row was woken and is at
\* row 0.
C9_Witness ==
    /\ filename = "random" /\ options.loop
    /\ woken["sem"] # << >>
    /\ LET t == woken["sem"][Len(woken["sem"])]
       IN  ~ queued[t] /\ iptr[t] = 0 /\ trace[t] # << >>

\* C10: in non-loop mode a thread whose step moves its pointer to the
\* instruction count is unregistered by that step, and an unregistered thread
\* is never registered or stepped again; in loop mode no thread is
\* unregistered, and a thread whose pointer reached the instruction count is
\* at row 0 and not queued.
C10_CompletionPolicy ==
    [][ IF options.loop
        THEN /\ threads' = threads
             /\ \A t \in AllThreads :
                  iptr'[t] >= Len(instructions(t)) => iptr'[t] = 0 /\ ~ queued'[t]
        ELSE /\ \A t \in Range(threads) :
                  (trace'[t] # trace[t] /\ iptr'[t] >= Len(instructions(t)))
                      => t \notin Range(threads')
             /\ \A t \in AllThreads \ Range(threads) :
                  /\ t \notin Range(threads')
                  /\ trace'[t] = trace[t] /\ iptr'[t] = iptr[t]
      ]_vars

\* C10 happens: in non-loop mode a thread executed its last line and is
\* unregistered while another thread is still registered.
C10_Witness ==
    /\ ~ options.loop
    /\ threads # << >>
    /\ \E t \in AllThreads \ Range(threads) :
         trace[t] # << >> /\ iptr[t] = Len(instructions(t))

\* The line at row r of thread t, and the last line a thread executed.
OpAt(t, r) == instructions(t)[r + 1].op
Last(q) == q[Len(q)]
IsHeader(op) == op \in {"if", "while", "else", "def"}
BodyError == "Body of compound statement must be indented."

\* C11: every header a thread stepped whose next line is indented no more
\* than the header ended the step with the error "body must be indented".
C11_UnindentedBodyRaises ==
    \A t \in AllThreads : \A i \in DOMAIN trace[t] :
        LET r == trace[t][i].row
            I == instructions(t)
        IN  (/\ IsHeader(OpAt(t, r))
             /\ r + 1 < Len(I)
             /\ count_spaces(I[r + 2]) <= count_spaces(I[r + 1]))
            => (i = Len(trace[t]) /\ err = BodyError)

\* C12: a step that executes a line calling balk() ends with the pointer at
\* 0 and leaves while_stack and flag_map as they were, and the line the
\* thread executes next is row 0.
C12_BalkReturnsToRowZero ==
    [][ \A t \in AllThreads :
          Len(trace'[t]) = Len(trace[t]) + 1 =>
            /\ OpAt(t, Last(trace'[t]).row) = "balk" =>
                 /\ iptr'[t] = 0
                 /\ Last(trace'[t]).after = Last(trace'[t]).before
                 /\ while_stack'[t] = Last(trace'[t]).before
                 /\ flag_map'[t] = flag_map[t]
            /\ (trace[t] # << >> /\ OpAt(t, Last(trace[t]).row) = "balk") =>
                 Last(trace'[t]).row = 0
      ]_vars

\* C13: between steps every thread's pointer is at least 0 and at most the
\* number of its instructions.
C13_PointerInRange ==
    \A t \in AllThreads : 0 <= iptr[t] /\ iptr[t] <= Len(instructions(t))

\* C13 happens: a thread has executed a line calling balk() and is at row 0.
C13_Witness ==
    /\ filename = "balk"
    /\ trace[1] # << >>
    /\ OpAt(1, Last(trace[1]).row) = "balk"
    /\ iptr[1] = 0

\* C14: run() makes at most max_steps ticks; once that many are made running
\* is cleared; and run() has returned only with running cleared or with no
\* thread left, after max_steps ticks when threads are left.
C14_AtMostMaxStepsTicks ==
    /\ step_count <= options.max_steps
    /\ (pc \in {"loop", "done"} /\ step_count >= options.max_steps) => ~ running
    /\ pc = "done" => (~ running \/ threads = << >>)
    /\ (pc = "done" /\ threads # << >>) => step_count = options.max_steps

\* C14 happens: run() returned after MaxSteps ticks of the random mode with
\* the silent policy, every thread being queued.
C14_Witness ==
    /\ pc = "done" /\ step_count = MaxSteps /\ options.max_steps = MaxSteps
    /\ ~ options.roundrobin /\ ~ options.no_deadlocks
    /\ threads # << >> /\ \A t \in Range(threads) : queued[t]

Min(a, b) == IF a <= b THEN a ELSE b

\* The threads that the step added to woken[s].
NewlyWoken(s) == { woken'[s][j] : j \in (Len(woken[s]) + 1)..Len(woken'[s]) }

\* C15: a step that executes a line "s.signal(k)" with q threads in the queue
\* of s raises n by k and wakes min(k, q) distinct threads of that queue,
\* which leaves q - min(k, q) threads in it; the threads not woken stay in
\* the queue, queued and with their pointer unchanged.
C15_SignalWakesMinKQ ==
    [][ \A t \in AllThreads :
          (Len(trace'[t]) = Len(trace[t]) + 1
             /\ OpAt(t, Last(trace'[t]).row) = "signal") =>
            LET source == instructions(t)[Last(trace'[t]).row + 1]
                s == source.sem
                k == source.arg
                q == Len(queue[s])
            IN  /\ n'[s] = n[s] + k
                /\ Len(woken'[s]) = Len(woken[s]) + Min(k, q)
                /\ Cardinality(NewlyWoken(s)) = Min(k, q)
                /\ NewlyWoken(s) \subseteq Range(queue[s])
                /\ Len(queue'[s]) = q - Min(k, q)
                /\ \A u \in Range(queue[s]) :
                     IF u \in NewlyWoken(s)
                     THEN ~ queued'[u] /\ u \notin Range(queue'[s])
                     ELSE /\ queued'[u] /\ u \in Range(queue'[s])
                          /\ iptr'[u] = iptr[u]
      ]_vars

\* C15 happens: with the script "random", signal() alone was executed, it
\* woke one thread and two threads are in the queue.
C15_Witness ==
    /\ filename = "random" /\ ~ options.loop
    /\ Len(trace[1]) = 1
    /\ Len(woken["sem"]) = 1
    /\ Len(queue["sem"]) = 2

\* C16: a tick's step of a thread that is queued or finished executes no
\* line and changes no pointer, queued flag, while_stack, flag_map, shared
\* variable, semaphore counter or semaphore queue.
C16_StepOfQueuedOrFinishedIsNoOp ==
    [][ (/\ tick_log' # << >>
         /\ pc \in {"loop", "rr"} /\ pc' # "done"
         /\ \/ queued[Last(tick_log')]
            \/ iptr[Last(tick_log')] >= Len(instructions(Last(tick_log'))))
        => UNCHANGED <<iptr, queued, while_stack, flag_map, x, n, queue,
                       count, counter, trace, err>>
      ]_vars

\* C16 happens: in a round-robin tick after the first, the thread just
\* stepped is one that was queued since the first tick.
C16_Witness ==
    /\ filename = "barrier" /\ options.roundrobin
    /\ pc = "rr" /\ step_count >= 1
    /\ queued[Last(tick_log)]

\* C17: for an if and an else: at the same indentation, each with an
\* indented body: after a true if the thread executes the if body, then the
\* else: with a false flag, and next no row of the else body; after a false
\* if it executes the else: with a true flag and then the else body.  An
\* else: executed when the thread has evaluated no if at its indentation
\* ends the step with the error "else does not match if".
C17_ExactlyOneBranch ==
    \A t \in AllThreads : \A i \in DOMAIN trace[t] :
        LET r == trace[t][i].row
            I == instructions(t)
            e == BodyEnd(t, r)
            e2 == BodyEnd(t, e)
            rest == Len(trace[t]) - i
        IN  /\ (/\ OpAt(t, r) = "if" /\ e > r + 1 /\ e < Len(I)
                /\ I[e + 1].op = "else" /\ e2 > e + 1
                /\ count_spaces(I[e + 1]) = count_spaces(I[r + 1])) =>
                 IF trace[t][i].flag
                 THEN /\ \A d \in 1..Min(rest, e - r - 1) :
                           trace[t][i + d].row = r + d
                      /\ rest >= e - r =>
                           /\ trace[t][i + e - r].row = e
                           /\ ~ trace[t][i + e - r].flag
                      /\ rest >= e - r + 1 =>
                           trace[t][i + e - r + 1].row \notin (e + 1)..(e2 - 1)
                 ELSE /\ rest >= 1 =>
                           trace[t][i + 1].row = e /\ trace[t][i + 1].flag
                      /\ \A d \in 2..Min(rest, e2 - e) :
                           trace[t][i + d].row = e + d - 1
            /\ (/\ OpAt(t, r) = "else"
                /\ \A j \in 1..(i - 1) :
                     ~ (/\ OpAt(t, trace[t][j].row) = "if"
                        /\ count_spaces(I[trace[t][j].row + 1]) =
                             count_spaces(I[r + 1]))) =>
                 (i = Len(trace[t]) /\ err = "else does not match if")

\* C17 happens: the thread of the script "ifelse" has executed the body of
\* its if and the body of its else:.
C17_Witness ==
    /\ filename = "ifelse"
    /\ \E i, j \in DOMAIN trace[1] : trace[1][i].row = 1 /\ trace[1][j].row = 3

\* C18: with Barrier(Parties) and Parties non-looping threads that each call
\* wait(), no state is reached in which every remaining thread is queued.
C18_BarrierNeverDeadlocks ==
    (filename = "barrier" /\ ~ options.loop) =>
        ~ (threads # << >> /\ \A t \in Range(threads) : queued[t])

\* C19: in the script "rw", no reader is runnable on its critical line
\* while the writer is runnable on its critical line or on its signal line.
C19_ReadersExcludeWriter ==
    filename = "rw" =>
        ~ \E r \in {2, 3} :
            /\ ~ queued[r] /\ iptr[r] = 1
            /\ ~ queued[1] /\ iptr[1] \in {1, 2}

\* The threads that are not queued and whose pointer is after their
\* mutex.wait() and at or before their mutex.signal().
InCriticalSection ==
    { t \in AllThreads :
        ~ queued[t] /\ iptr[t] >= 1 /\ iptr[t] <= Len(instructions(t)) - 1 }

\* C20: with threads that each execute mutex.wait(), critical lines and
\* mutex.signal() on one Semaphore(1) or FifoSemaphore(1), at most one
\* thread is in its critical section.
C20_MutualExclusion ==
    filename \in {"crit", "critfifo"} => Cardinality(InCriticalSection) <= 1

\* C20 happens: a thread woken by a signal is in its critical section while
\* another thread is blocked on the mutex.
C20_Witness ==
    /\ filename \in {"crit", "critfifo"}
    /\ woken["mutex"] # << >>
    /\ Last(woken["mutex"]) \in InCriticalSection
    /\ queue["mutex"] # << >>

====
